---------------------------- MODULE Spec2Model ----------------------------
(***************************************************************************)
(* Model of notebooks/integrating_auth_mast_service.ipynb: the views and   *)
(* decorators that integrate the auth.mast OAuth service into a Django     *)
(* application.                                                            *)
(*                                                                         *)
(* One action is one HTTP request served by one view (Django serves a      *)
(* request by one synchronous call of the view), followed by the browser   *)
(* applying the Set-Cookie directives of the response.  The variables      *)
(* other than jar, issued and MY_APP_OAUTH are the log of the last         *)
(* request served: what it carried, which outbound calls it made, which    *)
(* wrapped functions were called with which arguments, and the response.   *)
(*                                                                         *)
(* The urlpatterns of the notebook capture no URL parameter, so every view *)
(* is called with empty **kwargs.                                          *)
(***************************************************************************)
EXTENDS Integers, Sequences, FiniteSets, TLC

\* Bounds of the model: the access tokens the provider can issue and the
\* users that can log in.
MaxTokens == 2
MaxUsers == 2

Tokens == 1..MaxTokens
Users == 1..MaxUsers

\* Python's None (the value of an absent cookie, of an anonymous ezid and of
\* an unset cookie domain); distinct from every token and every user.
None == 0

\* The global parameters of the notebook.
client_id == ""
client_secret == ""
auth_mast == "auth.mast.stsci.edu"
base_url == "https://myapp.stsci.edu"

\* register_oauth(): the client registration; str.format is concatenation.
register_oauth ==
    [name |-> "mast_auth",
     client_id |-> client_id,
     client_secret |-> client_secret,
     access_token_url |-> "https://" \o auth_mast
                            \o "/oauth/access_token?client_secret=" \o client_secret,
     access_token_params |-> None,
     refresh_token_url |-> None,
     authorize_url |-> "https://" \o auth_mast \o "/oauth/authorize",
     api_base_url |-> "https://" \o auth_mast \o "/1.1/",
     client_kwargs |-> [scope |-> "mast:user:info"]]

VARIABLES
    MY_APP_OAUTH,  \* the module-level client registration
    jar,           \* the browser's cookie jar: the cookies it holds
    issued,        \* provider: the access tokens it accepts, with their users
    view,          \* the view that served the last request
    reqCookie,     \* request.COOKIES.get("ASB-AUTH") of the last request
    reqValid,      \* whether the provider accepted that cookie at the time
    infoCalls,     \* the requests.get calls the last request made
    infoReplies,   \* the provider's replies to them
    tokenCalls,    \* the token-endpoint calls the last request made
    tokenReplies,  \* the provider's replies to them
    fnCalls,       \* the calls user_info made to the function it wraps
    gateCalls,     \* the calls check_auth made to the function it wraps
    response,      \* the response of the last request
    lastCookieOp   \* the last view whose response carried a cookie directive

vars == <<MY_APP_OAUTH, jar, issued, view, reqCookie, reqValid, infoCalls,
          infoReplies, tokenCalls, tokenReplies, fnCalls, gateCalls, response,
          lastCookieOp>>


-----------------------------------------------------------------------------
(* Responses and cookies                                                   *)

\* An HttpResponse: redirect(to), render(request, template, context), or the
\* exception the view raised instead of returning one.
Response(kind, to, context, cookies, raised) ==
    [kind |-> kind, to |-> to, context |-> context, cookies |-> cookies,
     raised |-> raised]

redirect(to) == Response("redirect", to, <<>>, <<>>, "")
render(template, context) == Response("render", template, <<context>>, <<>>, "")
Raise(exception) == Response("error", "", <<>>, <<>>, exception)
NoResponse == Response("none", "", <<>>, <<>>, "")

\* response.set_cookie(key, value, **cookie_args) of authorize().
set_cookie(resp, key, value, cookie_args) ==
    [resp EXCEPT !.cookies =
        Append(@, [name |-> key, value |-> value, expired |-> FALSE,
                   domain |-> cookie_args.domain,
                   secure |-> cookie_args.secure,
                   httponly |-> cookie_args.httponly])]

\* response.delete_cookie(key) of logout(): Django sends the cookie with an
\* empty value, no domain, and an expiry date in the past.
delete_cookie(resp, key) ==
    [resp EXCEPT !.cookies =
        Append(@, [name |-> key, value |-> None, expired |-> TRUE,
                   domain |-> "", secure |-> FALSE, httponly |-> FALSE])]

\* The host the application is served at: the host of base_url.
request_host == "myapp.stsci.edu"

\* The domain a browser stores a cookie under: the directive's domain, or
\* the request host when the directive names none.
CookieDomain(d) == IF d.domain = "" THEN request_host ELSE d.domain

\* The browser applies the Set-Cookie directives of a response in order: a
\* directive replaces the cookie of its name and domain (both views use the
\* default path), an expired one removes it.
RECURSIVE BrowserApply(_, _)
BrowserApply(j, directives) ==
    IF directives = <<>> THEN j
    ELSE LET d == Head(directives)
             rest == {c \in j : ~(c.name = d.name /\ c.domain = CookieDomain(d))}
         IN BrowserApply(IF d.expired THEN rest
                         ELSE rest \cup {[name |-> d.name, value |-> d.value,
                                          domain |-> CookieDomain(d),
                                          secure |-> d.secure,
                                          httponly |-> d.httponly]},
                         Tail(directives))

\* request.COOKIES.get(key): the value of the cookie of that name the
\* browser sends to the request host, None when there is none.
COOKIES_get(j, key) ==
    IF \E c \in j : c.name = key /\ c.domain = request_host
    THEN (CHOOSE c \in j : c.name = key /\ c.domain = request_host).value
    ELSE None

-----------------------------------------------------------------------------
(* The provider (auth.mast), an external collaborator                      *)

\* The record of an anonymous caller.
AnonRecord == [ezid |-> None, anon |-> TRUE]

\* The replies GET /info can give to a bearer token.  A token the provider
\* accepts gets the record of its user.  The notebook fixes nothing about the
\* reply to any other token: it may be an anonymous record, a JSON error
\* body, or a body that is not JSON.
ProviderInfo(token, iss) ==
    IF \E i \in iss : i.token = token
    THEN {[json |-> TRUE,
           body |-> [ezid |-> (CHOOSE i \in iss : i.token = token).user,
                     anon |-> FALSE]]}
    ELSE {[json |-> TRUE, body |-> AnonRecord],
          [json |-> TRUE, body |-> [error |-> "invalid token"]],
          [json |-> FALSE, body |-> [error |-> "not json"]]}

\* The outcomes of the token exchange: the provider issues a token to the
\* user who authorised (a token it does not hold, or that user's own), or
\* the exchange fails and authorize_access_token raises.
ProviderExchange(iss) ==
    {[ok |-> FALSE, access_token |-> None, user |-> None]}
    \cup {[ok |-> TRUE, access_token |-> t, user |-> u] :
              <<t, u>> \in {p \in Tokens \X Users :
                  \A i \in iss : i.token = p[1] => i.user = p[2]}}

-----------------------------------------------------------------------------
(* The decorators and the views                                            *)

\* The names the "Necessary imports" cell binds.  check_auth also uses the
\* name os, which no cell of the notebook imports or defines.
Imports == {"requests", "OAuth", "redirect", "render", "path"}

\* os.path.join(a, b)
os_path_join(a, b) == a \o "/" \o b

\* MY_APP_OAUTH.mast_auth.authorize_redirect(request, redirect_uri): the
\* redirect to the provider's authorize endpoint, carrying the callback URL.
authorize_redirect(oauth, redirect_uri) ==
    Response("redirect", oauth.authorize_url,
             <<[client_id |-> oauth.client_id, redirect_uri |-> redirect_uri,
                scope |-> oauth.client_kwargs.scope]>>, <<>>, "")

\* Variant of login that also deletes the session cookie.
login_clears_cookie(user) == delete_cookie(redirect("/"), "ASB-AUTH")

\* login(request, user), the view under @auth_required.
login(user) == redirect("/")

\* some_webpage(request, user), the view under @auth_info.
some_webpage(user) == render("some_webpage.html", [user |-> user])

\* Variant of check_auth that takes the login branch for every caller and
\* never delegates to the wrapped view.
check_auth_never_delegates(fn, oauth, user) ==
    IF "anon" \notin DOMAIN user
    THEN [gateCalls |-> <<>>, response |-> Raise("KeyError")]
    ELSE [gateCalls |-> <<>>, response |-> Raise("NameError")]

\* auth_required(fn).check_auth(request, user): what it calls and returns.
\* user["anon"] raises KeyError on a record without the key; evaluating
\* os.path.join raises NameError as os is unbound.
check_auth(fn, oauth, user) ==
    IF "anon" \notin DOMAIN user
    THEN [gateCalls |-> <<>>, response |-> Raise("KeyError")]
    ELSE IF user.anon
    THEN [gateCalls |-> <<>>,
          response |-> IF "os" \notin Imports
                       THEN Raise("NameError")
                       ELSE authorize_redirect(oauth,
                                os_path_join(base_url, "authorize"))]
    ELSE [gateCalls |-> <<[fn |-> fn, user |-> user]>>,
          response |-> login(user)]

\* The function a view's outermost decorator wraps: some_webpage itself, or
\* check_auth around login.
Call(fn, oauth, user) ==
    IF fn = "check_auth"
    THEN check_auth("login", oauth, user)
    ELSE [gateCalls |-> <<>>, response |-> some_webpage(user)]

\* Variant of InfoRequest that sends no token.
InfoRequestNoToken(cookie) ==
    [url |-> "https://" \o auth_mast \o "/info",
     headers |-> [Accept |-> "application/json",
                  Authorization |-> <<"token", None>>]]

\* The requests.get call of user_info: the info endpoint, with the cookie
\* as the token of the Authorization header.
InfoRequest(cookie) ==
    [url |-> "https://" \o auth_mast \o "/info",
     headers |-> [Accept |-> "application/json",
                  Authorization |-> <<"token", cookie>>]]

\* Variant of InfoRequests that asks the provider even without a cookie.
InfoRequestsAlways(cookie) == <<InfoRequest(cookie)>>

\* The outbound calls user_info makes for a cookie.
InfoRequests(cookie) ==
    IF cookie # None THEN <<InfoRequest(cookie)>> ELSE <<>>

\* Variant of Identity whose anonymous assignment runs unconditionally.
IdentityAlwaysAnon(cookie, reply) == [ezid |-> None, anon |-> TRUE]

\* The identity user_info resolves: the JSON body of the provider's reply
\* when there is a cookie, the anonymous record when there is none.
Identity(cookie, reply) ==
    IF cookie # None THEN reply.body ELSE [ezid |-> None, anon |-> TRUE]

\* Variant of user_info that deletes the cookie of a caller the provider
\* reports as anonymous.
user_info_clears_rejected(fn, oauth, cookie, reply) ==
    LET calls == InfoRequests(cookie)
        replies == IF calls = <<>> THEN <<>> ELSE <<reply>>
    IN  IF calls # <<>> /\ ~reply.json
        THEN [infoCalls |-> calls, infoReplies |-> replies, tokenCalls |-> <<>>,
              tokenReplies |-> <<>>, fnCalls |-> <<>>, gateCalls |-> <<>>,
              response |-> Raise("ValueError")]
        ELSE LET user == Identity(cookie, reply)
                 out == Call(fn, oauth, user)
             IN [infoCalls |-> calls, infoReplies |-> replies,
                 tokenCalls |-> <<>>, tokenReplies |-> <<>>,
                 fnCalls |-> <<[fn |-> fn, user |-> user]>>,
                 gateCalls |-> out.gateCalls,
                 response |-> IF cookie # None /\ user = AnonRecord
                              THEN delete_cookie(out.response, "ASB-AUTH")
                              ELSE out.response]

\* auth_info(fn).user_info(request): the calls it makes and what it returns.
\* response.json() raises ValueError on a body that is not JSON.
user_info(fn, oauth, cookie, reply) ==
    LET calls == InfoRequests(cookie)
        replies == IF calls = <<>> THEN <<>> ELSE <<reply>>
    IN  IF calls # <<>> /\ ~reply.json
        THEN [infoCalls |-> calls, infoReplies |-> replies, tokenCalls |-> <<>>,
              tokenReplies |-> <<>>, fnCalls |-> <<>>, gateCalls |-> <<>>,
              response |-> Raise("ValueError")]
        ELSE LET user == Identity(cookie, reply)
                 out == Call(fn, oauth, user)
             IN [infoCalls |-> calls, infoReplies |-> replies,
                 tokenCalls |-> <<>>, tokenReplies |-> <<>>,
                 fnCalls |-> <<[fn |-> fn, user |-> user]>>,
                 gateCalls |-> out.gateCalls, response |-> out.response]

\* Variant of cookie_args without the secure flag.
cookie_args_insecure ==
    [domain |-> "myapp.stsci.edu", secure |-> FALSE, httponly |-> TRUE]

\* The cookie parameters authorize() sets.
cookie_args == [domain |-> "myapp.stsci.edu", secure |-> TRUE, httponly |-> TRUE]

\* authorize(request): the token exchange, then the cookie and the redirect
\* home.  A failed exchange raises inside authorize_access_token.
authorize(oauth, exchange) ==
    [infoCalls |-> <<>>, infoReplies |-> <<>>,
     tokenCalls |-> <<[url |-> oauth.access_token_url,
                       headers |-> [Accept |-> "application/json"]]>>,
     tokenReplies |-> <<exchange>>,
     fnCalls |-> <<>>, gateCalls |-> <<>>,
     response |-> IF exchange.ok
                  THEN set_cookie(redirect("/"), "ASB-AUTH",
                                  exchange.access_token, cookie_args)
                  ELSE Raise("OAuthError")]

\* Variant of logout that redirects home without deleting the cookie.
logout_keeps_cookie ==
    [infoCalls |-> <<>>, infoReplies |-> <<>>, tokenCalls |-> <<>>,
     tokenReplies |-> <<>>, fnCalls |-> <<>>, gateCalls |-> <<>>,
     response |-> redirect("/")]

\* logout(request): delete the cookie and redirect home.
logout ==
    [infoCalls |-> <<>>, infoReplies |-> <<>>, tokenCalls |-> <<>>,
     tokenReplies |-> <<>>, fnCalls |-> <<>>, gateCalls |-> <<>>,
     response |-> delete_cookie(redirect("/"), "ASB-AUTH")]

-----------------------------------------------------------------------------
(* The state machine                                                       *)

Init ==
    /\ MY_APP_OAUTH = register_oauth
    /\ jar = {}
    /\ issued = {}
    /\ view = "none"
    /\ reqCookie = None
    /\ reqValid = FALSE
    /\ infoCalls = <<>>
    /\ infoReplies = <<>>
    /\ tokenCalls = <<>>
    /\ tokenReplies = <<>>
    /\ fnCalls = <<>>
    /\ gateCalls = <<>>
    /\ response = NoResponse
    /\ lastCookieOp = "none"

\* A view serves the browser's request and the browser applies the cookie
\* directives of the response.
Serve(v, out) ==
    /\ view' = v
    /\ reqCookie' = COOKIES_get(jar, "ASB-AUTH")
    /\ reqValid' = \E i \in issued : i.token = COOKIES_get(jar, "ASB-AUTH")
    /\ infoCalls' = out.infoCalls
    /\ infoReplies' = out.infoReplies
    /\ tokenCalls' = out.tokenCalls
    /\ tokenReplies' = out.tokenReplies
    /\ fnCalls' = out.fnCalls
    /\ gateCalls' = out.gateCalls
    /\ response' = out.response
    /\ jar' = BrowserApply(jar, out.response.cookies)
    /\ lastCookieOp' = IF out.response.cookies # <<>> THEN v ELSE lastCookieOp
    /\ UNCHANGED MY_APP_OAUTH

\* GET some_webpage: @auth_info some_webpage.
SomeWebpage ==
    LET cookie == COOKIES_get(jar, "ASB-AUTH") IN
    \E reply \in ProviderInfo(cookie, issued) :
        /\ Serve("some_webpage",
                 user_info("some_webpage", MY_APP_OAUTH, cookie, reply))
        /\ UNCHANGED issued

\* GET login/: @auth_required login, which is auth_info(check_auth).
Login ==
    LET cookie == COOKIES_get(jar, "ASB-AUTH") IN
    \E reply \in ProviderInfo(cookie, issued) :
        /\ Serve("login", user_info("check_auth", MY_APP_OAUTH, cookie, reply))
        /\ UNCHANGED issued

\* GET authorize/: the callback of the provider.
Authorize ==
    \E exchange \in ProviderExchange(issued) :
        /\ Serve("authorize", authorize(MY_APP_OAUTH, exchange))
        /\ issued' = IF exchange.ok
                     THEN issued \cup {[token |-> exchange.access_token,
                                        user |-> exchange.user]}
                     ELSE issued

\* GET logout/.
Logout ==
    /\ Serve("logout", logout)
    /\ UNCHANGED issued

\* The provider expires or revokes a token; no request is being served.
ProviderRevoke ==
    \E i \in issued :
        /\ issued' = issued \ {i}
        /\ view' = "none"
        /\ reqCookie' = None
        /\ reqValid' = FALSE
        /\ infoCalls' = <<>>
        /\ infoReplies' = <<>>
        /\ tokenCalls' = <<>>
        /\ tokenReplies' = <<>>
        /\ fnCalls' = <<>>
        /\ gateCalls' = <<>>
        /\ response' = NoResponse
        /\ UNCHANGED <<MY_APP_OAUTH, jar, lastCookieOp>>

Next ==
    \/ SomeWebpage
    \/ Login
    \/ Authorize
    \/ Logout
    \/ ProviderRevoke

Spec == Init /\ [][Next]_vars

TypeOK ==
    /\ MY_APP_OAUTH = register_oauth
    /\ Cardinality(jar) <= 1
    /\ \A c \in jar : c.name = "ASB-AUTH" /\ c.value \in Tokens
    /\ \A i \in issued : i.token \in Tokens /\ i.user \in Users
    /\ view \in {"none", "some_webpage", "login", "authorize", "logout"}
    /\ reqCookie \in Tokens \cup {None}
    /\ lastCookieOp \in {"none", "authorize", "logout"}

-----------------------------------------------------------------------------
(* Properties                                                              *)

\* The last request was served by a view under auth_info (identity
\* resolution ran), and the function auth_info wraps for that view.
ResolutionView == view \in {"some_webpage", "login"}
WrappedFn == IF view = "login" THEN "check_auth" ELSE "some_webpage"

\* The identity handed to the wrapped function is an anonymous one.
TreatedAnonymous ==
    /\ fnCalls # <<>>
    /\ "anon" \in DOMAIN fnCalls[1].user
    /\ fnCalls[1].user.anon

\* The identity handed to the wrapped function is an authenticated one.
TreatedAuthenticated ==
    /\ fnCalls # <<>>
    /\ "anon" \in DOMAIN fnCalls[1].user
    /\ ~fnCalls[1].user.anon

\* The redirect to the provider's authorize endpoint with the application's
\* /authorize callback URL.
ProviderRedirect ==
    Response("redirect", "https://auth.mast.stsci.edu/oauth/authorize",
             <<[client_id |-> "",
                redirect_uri |-> "https://myapp.stsci.edu/authorize",
                scope |-> "mast:user:info"]>>, <<>>, "")

\* C1: a request without the ASB-AUTH cookie makes no outbound call, and the
\* wrapped function is called once, with the record {ezid: None, anon: True}.
C1_NoCookieIsAnonymous ==
    (ResolutionView /\ reqCookie = None) =>
        /\ infoCalls = <<>>
        /\ tokenCalls = <<>>
        /\ fnCalls = <<[fn |-> WrappedFn, user |-> [ezid |-> None, anon |-> TRUE]]>>

C1_Witness ==
    /\ view = "some_webpage"
    /\ reqCookie = None
    /\ response = render("some_webpage.html", [user |-> AnonRecord])

\* C2: a request whose cookie the provider accepts makes exactly one call, to
\* the info endpoint with the cookie as the token, and the wrapped function
\* is called with the record that call returned.
C2_ValidCookieOneInfoCall ==
    (ResolutionView /\ reqValid) =>
        /\ infoCalls = <<[url |-> "https://auth.mast.stsci.edu/info",
                          headers |-> [Accept |-> "application/json",
                                       Authorization |-> <<"token", reqCookie>>]]>>
        /\ tokenCalls = <<>>
        /\ Len(infoReplies) = 1
        /\ fnCalls = <<[fn |-> WrappedFn, user |-> infoReplies[1].body]>>

C2_Witness ==
    /\ view = "some_webpage"
    /\ reqValid
    /\ Len(infoCalls) = 1
    /\ response.kind = "render"
    /\ response.context[1].user.ezid \in Users

\* C3: the login gate answers every caller whose identity is anonymous with
\* the redirect to the provider's authorize endpoint carrying the /authorize
\* callback URL, and does not call the wrapped view.
C3_GateRedirectsAnonymous ==
    (view = "login" /\ TreatedAnonymous) =>
        /\ response = ProviderRedirect
        /\ gateCalls = <<>>

\* C4: the login gate calls the wrapped view once for an authenticated
\* caller, with the resolved identity, and returns its result, which is not
\* a redirect to the provider.
C4_GateDelegatesAuthenticated ==
    (view = "login" /\ TreatedAuthenticated) =>
        /\ gateCalls = <<[fn |-> "login", user |-> fnCalls[1].user]>>
        /\ response = redirect("/")
        /\ response.to # MY_APP_OAUTH.authorize_url

C4_Witness ==
    /\ view = "login"
    /\ reqValid
    /\ gateCalls # <<>>
    /\ gateCalls[1].user.ezid \in Users

\* The token exchange of the last request succeeded.
ExchangeSucceeded == tokenReplies # <<>> /\ tokenReplies[1].ok

\* C5: after a successful token exchange the callback view answers with a
\* redirect to "/" that sets ASB-AUTH to the returned access token, secure,
\* httponly and scoped to a domain; the browser then holds that cookie.
C5_CallbackSetsSecureCookie ==
    (view = "authorize" /\ ExchangeSucceeded) =>
        /\ response.kind = "redirect"
        /\ response.to = "/"
        /\ Len(response.cookies) = 1
        /\ response.cookies[1].name = "ASB-AUTH"
        /\ response.cookies[1].value = tokenReplies[1].access_token
        /\ response.cookies[1].secure
        /\ response.cookies[1].httponly
        /\ response.cookies[1].domain # ""
        /\ ~response.cookies[1].expired
        /\ COOKIES_get(jar, "ASB-AUTH") = tokenReplies[1].access_token

C5_Witness ==
    /\ view = "authorize"
    /\ ExchangeSucceeded
    /\ jar # {}

RepliedAnonymous ==
    /\ infoReplies # <<>>
    /\ infoReplies[1].json
    /\ "anon" \in DOMAIN infoReplies[1].body
    /\ infoReplies[1].body.anon

\* The login gate took its anonymous branch: it did not call the wrapped
\* view, and not because the identity had no anon key.
GateAnonymousBranch ==
    /\ view = "login"
    /\ fnCalls # <<>>
    /\ gateCalls = <<>>
    /\ response.raised # "KeyError"

C9_ResolutionReadOnly ==
    [][view' \in {"some_webpage", "login"} =>
            /\ jar' = jar
            /\ COOKIES_get(jar', "ASB-AUTH") = reqCookie'
            /\ MY_APP_OAUTH' = MY_APP_OAUTH
            /\ issued' = issued
            /\ lastCookieOp' = lastCookieOp
            /\ response'.cookies = <<>>
            /\ tokenCalls' = <<>>
      ]_vars

C9_Witness ==
    /\ view = "some_webpage"
    /\ reqCookie \in Tokens
    /\ ~reqValid
    /\ RepliedAnonymous
    /\ COOKIES_get(jar, "ASB-AUTH") = reqCookie

\* C10: the login flow.  A /login request without a cookie, and every /login
\* request before a successful callback, is redirected to the provider; a
\* successful callback sets the cookie; a /login request carrying a cookie
\* the provider accepts reaches the login view and is redirected to "/".
C10_LoginFlow ==
    /\ (view = "login" /\ (reqCookie = None \/ lastCookieOp # "authorize")) =>
            /\ response.kind = "redirect"
            /\ response.to = MY_APP_OAUTH.authorize_url
    /\ (view = "authorize" /\ ExchangeSucceeded) => jar # {}
    /\ (view = "login" /\ reqValid) =>
            /\ gateCalls # <<>>
            /\ response = redirect("/")
=============================================================================
